---- MODULE Spec2Model ----
(***************************************************************************)
(* Model of app.py, the card dashboard for relief locations: the loader    *)
(* (load_raw_data), the derivation helpers (normalize_phone,               *)
(* get_ordered_update_columns, compute_last_update, compute_update_level), *)
(* the message composer (build_whatsapp_body_for_row) and the page run of  *)
(* main().                                                                 *)
(*                                                                         *)
(* Text is a sequence of one-character strings.  A missing cell (pandas    *)
(* NaN) is the one-element sequence NaN, Python's None is NoneVal; neither *)
(* is a text the sheet can hold.                                           *)
(***************************************************************************)
EXTENDS Integers, Sequences, FiniteSets, TLC

VARIABLES
    arg,               \* helper harness: the arguments of the call
    ret,               \* helper harness: the helper called and what it gave back
    pc,                \* page run: where main() is
    raw,               \* page run: the sheet as read, rows of cells, no header assumed
    shown,             \* page run: the st.error / st.warning / st.info notice put out
    columns,           \* page run: df.columns
    df,                \* page run: the records of the data frame
    update_cols_desc,  \* page run: update columns, highest index first
    update_cols_asc,   \* page run: the same, reversed
    wa_korlap_col,     \* page run: the column holding the field coordinator's phone
    filtered,          \* page run: the records displayed, after filters and sort
    cards,             \* page run: what each card shows
    selected_indices,  \* page run: row indices ticked on the cards
    message,           \* page run: the combined WhatsApp body and its link
    detail_row_param,  \* page run: the "row" query parameter, None when absent
    detail_view,       \* page run: the detail section put out above the filters
    sort_option        \* page run: the choice of the sort radio

harness == <<arg, ret>>

page == <<pc, raw, shown, columns, df, update_cols_desc, update_cols_asc,
          wa_korlap_col, filtered, cards, selected_indices, message,
          detail_row_param, detail_view, sort_option>>

vars == <<arg, ret, pc, raw, shown, columns, df, update_cols_desc, update_cols_asc,
          wa_korlap_col, filtered, cards, selected_indices, message,
          detail_row_param, detail_view, sort_option>>

-----------------------------------------------------------------------------
(* Values and the Python string operations the code uses.                  *)

NaN == <<"NaN">>
NoneVal == <<"None">>

\* the harness has not called a function yet
NotCalled == [fn |-> "none"]

\* no message composed
NoMessage == [composed |-> FALSE]

\* no detail section put out
NoDetail == [shown |-> FALSE]

\* the sort radio not reached yet
NotChosen == "not chosen"

\* the page run is not part of a helper specification
PageIdle ==
    /\ pc = "idle"
    /\ raw = <<>>
    /\ shown = "nothing"
    /\ columns = <<>>
    /\ df = <<>>
    /\ update_cols_desc = <<>>
    /\ update_cols_asc = <<>>
    /\ wa_korlap_col = NoneVal
    /\ filtered = <<>>
    /\ cards = <<>>
    /\ selected_indices = <<>>
    /\ message = NoMessage
    /\ detail_row_param = NoneVal
    /\ detail_view = NoDetail
    /\ sort_option = NotChosen

DigitChars == <<"0", "1", "2", "3", "4", "5", "6", "7", "8", "9">>
UpperChars == <<"A", "B", "C", "D", "E", "F", "G", "H", "I", "J", "K", "L", "M", "N", "O", "P", "Q", "R", "S", "T", "U", "V", "W", "X", "Y", "Z">>
LowerChars == <<"a", "b", "c", "d", "e", "f", "g", "h", "i", "j", "k", "l", "m", "n", "o", "p", "q", "r", "s", "t", "u", "v", "w", "x", "y", "z">>

Range(s) == {s[i] : i \in DOMAIN s}

DigitSet == Range(DigitChars)
UpperSet == Range(UpperChars)
LowerSet == Range(LowerChars)

IsDigit(c) == c \in DigitSet

IsSpace(c) == c \in {" ", "\t", "\n"}

DigitVal(c) == (CHOOSE i \in DOMAIN DigitChars : DigitChars[i] = c) - 1

\* pd.isna(val): NaN and None are missing
IsNA(v) == v = NaN \/ v = NoneVal

\* str(val): NaN prints as "nan", None as "None", a text is itself
PyStr(v) ==
    IF v = NaN THEN <<"n", "a", "n">>
    ELSE IF v = NoneVal THEN <<"N", "o", "n", "e">>
    ELSE v

LowerOf == [c \in UpperSet |-> LowerChars[CHOOSE i \in DOMAIN UpperChars : UpperChars[i] = c]]
UpperOf == [c \in LowerSet |-> UpperChars[CHOOSE i \in DOMAIN LowerChars : LowerChars[i] = c]]

LowerChar(c) == IF c \in UpperSet THEN LowerOf[c] ELSE c

\* s.lower()
Lower(s) == [i \in DOMAIN s |-> LowerChar(s[i])]

RECURSIVE LStrip(_)
LStrip(s) == IF s # <<>> /\ IsSpace(Head(s)) THEN LStrip(Tail(s)) ELSE s

RECURSIVE RStrip(_)
RStrip(s) ==
    IF s # <<>> /\ IsSpace(s[Len(s)]) THEN RStrip(SubSeq(s, 1, Len(s) - 1)) ELSE s

\* s.strip()
Strip(s) == RStrip(LStrip(s))

\* s.startswith(p)
StartsWith(s, p) == Len(s) >= Len(p) /\ SubSeq(s, 1, Len(p)) = p

\* int(text) for a run of decimal digits
RECURSIVE ParseInt(_)
ParseInt(ds) ==
    IF ds = <<>> THEN 0
    ELSE 10 * ParseInt(SubSeq(ds, 1, Len(ds) - 1)) + DigitVal(ds[Len(ds)])

\* str(n) for n >= 0
RECURSIVE IntToStr(_)
IntToStr(n) ==
    IF n < 10 THEN <<DigitChars[n + 1]>>
    ELSE IntToStr(n \div 10) \o <<DigitChars[(n % 10) + 1]>>

\* re.sub(r"\D", "", s): drop every character that is not a digit
RECURSIVE ReSubNonDigits(_)
ReSubNonDigits(s) ==
    IF s = <<>> THEN <<>>
    ELSE IF IsDigit(Head(s)) THEN <<Head(s)>> \o ReSubNonDigits(Tail(s))
    ELSE ReSubNonDigits(Tail(s))

\* re.findall(r"(\d+)", s)[-1]: the last maximal run of digits, <<>> if none
RECURSIVE LastDigitRunFrom(_, _)
LastDigitRunFrom(s, run) ==
    IF s = <<>> THEN run
    ELSE IF IsDigit(s[Len(s)])
         THEN LastDigitRunFrom(SubSeq(s, 1, Len(s) - 1), <<s[Len(s)]>> \o run)
         ELSE IF run # <<>> THEN run
              ELSE LastDigitRunFrom(SubSeq(s, 1, Len(s) - 1), run)

LastDigitRun(s) == LastDigitRunFrom(s, <<>>)

Reverse(s) == [i \in DOMAIN s |-> s[Len(s) + 1 - i]]

RECURSIVE SeqsUpTo(_, _)
SeqsUpTo(S, n) ==
    IF n = 0 THEN {<<>>}
    ELSE LET shorter == SeqsUpTo(S, n - 1)
         IN  shorter \cup {Append(s, x) : s \in shorter, x \in S}

-----------------------------------------------------------------------------
(* normalize_phone                                                         *)

normalize_phone_keeps_zero(phone) ==
    IF phone = NoneVal THEN NoneVal
    ELSE LET s == PyStr(phone)
             digits == ReSubNonDigits(s)
         IN  IF s = <<>> \/ Lower(s) = <<"n", "a", "n">> THEN NoneVal
             ELSE IF digits = <<>> THEN NoneVal
             ELSE IF StartsWith(digits, <<"0">>) THEN <<"6", "2">> \o digits
             ELSE digits

normalize_phone(phone) ==
    IF phone = NoneVal THEN NoneVal
    ELSE LET s == PyStr(phone)
             digits == ReSubNonDigits(s)
         IN  IF s = <<>> \/ Lower(s) = <<"n", "a", "n">> THEN NoneVal
             ELSE IF digits = <<>> THEN NoneVal
             ELSE IF StartsWith(digits, <<"0">>) THEN <<"6", "2">> \o Tail(digits)
             ELSE digits

MaxPhoneLen == 4

PhoneChars == {"0", "6", "2", "8", "-", " ", "+"}

PhoneInputs == SeqsUpTo(PhoneChars, MaxPhoneLen) \cup {NaN, NoneVal, <<"n", "a", "n">>}

InitPhone ==
    /\ arg \in {[phone |-> p] : p \in PhoneInputs}
    /\ ret = NotCalled
    /\ PageIdle

CallNormalizePhone ==
    /\ ret = NotCalled
    /\ "phone" \in DOMAIN arg
    /\ ret' = [fn |-> "normalize_phone", val |-> normalize_phone(arg.phone)]
    /\ UNCHANGED <<arg, page>>

NextPhone == CallNormalizePhone

SpecPhone == InitPhone /\ [][NextPhone]_vars

PhoneReturned == ret.fn = "normalize_phone"

\* the claim's inputs: a text whose first character is "0" and that holds a further digit
ZeroLedPhone(p) ==
    /\ ~IsNA(p)
    /\ p # <<>>
    /\ Head(p) = "0"
    /\ \E i \in 2..Len(p) : IsDigit(p[i])

\* C4: a phone text starting with "0" and holding a further digit normalizes to a
\* digit-only text that starts with "62", continues with the input's digits after
\* the leading zero in their order, and is one longer than the input's digit count.
C4_ZeroPrefixBecomes62 ==
    (PhoneReturned /\ ZeroLedPhone(arg.phone)) =>
        LET inDigits == SelectSeq(arg.phone, IsDigit)
        IN  /\ ret.val # NoneVal
            /\ \A i \in DOMAIN ret.val : IsDigit(ret.val[i])
            /\ Len(ret.val) = Len(inDigits) - 1 + 2
            /\ SubSeq(ret.val, 1, 2) = <<"6", "2">>
            /\ SubSeq(ret.val, 3, Len(ret.val)) = SubSeq(inDigits, 2, Len(inDigits))

C4_Witness ==
    /\ PhoneReturned
    /\ arg.phone = <<"0", "8", "-", "2">>
    /\ ret.val = <<"6", "2", "8", "2">>

-----------------------------------------------------------------------------
(* load_raw_data: the duplicate-header pass                                *)

Suffixed(h, k) == h \o <<" ", "(">> \o IntToStr(k) \o <<")">>

RECURSIVE DedupLoop(_, _, _)
DedupLoop(headers, seen, cleaned) ==
    IF headers = <<>> THEN cleaned
    ELSE LET h == PyStr(Head(headers))
         IN  IF h \notin DOMAIN seen
             THEN DedupLoop(Tail(headers), seen @@ (h :> 0), Append(cleaned, h))
             ELSE DedupLoop(Tail(headers),
                            [seen EXCEPT ![h] = seen[h] + 1],
                            Append(cleaned, Suffixed(h, seen[h] + 1)))

cleaned_headers(headers) == DedupLoop(headers, [h \in {} |-> 0], <<>>)

MaxHeaders == 4

HeaderCells ==
    { <<"N", "o">>,
      <<"P", "h", "o", "n", "e">>,
      <<"P", "h", "o", "n", "e", " ", "(", "1", ")">>,
      NaN }

InitHeader ==
    /\ arg \in {[headers |-> hs] : hs \in SeqsUpTo(HeaderCells, MaxHeaders)}
    /\ ret = NotCalled
    /\ PageIdle

CallCleanedHeaders ==
    /\ ret = NotCalled
    /\ "headers" \in DOMAIN arg
    /\ ret' = [fn |-> "cleaned_headers", val |-> cleaned_headers(arg.headers)]
    /\ UNCHANGED <<arg, page>>

NextHeader == CallCleanedHeaders

SpecHeader == InitHeader /\ [][NextHeader]_vars

\* how many of the cells before position i carry the same raw label as cell i
RepeatsBefore(hs, i) == Cardinality({j \in 1..(i - 1) : PyStr(hs[j]) = PyStr(hs[i])})

\* C2: after the duplicate-header pass the column names are pairwise distinct, for
\* every list of raw header cells; the first occurrence of a label is unchanged and
\* its k-th repeat is named "L (k)".
C2_ColumnNamesDistinct ==
    ret.fn = "cleaned_headers" =>
        /\ Len(ret.val) = Len(arg.headers)
        /\ \A i, j \in DOMAIN ret.val : i # j => ret.val[i] # ret.val[j]
        /\ \A i \in DOMAIN ret.val :
               ret.val[i] = IF RepeatsBefore(arg.headers, i) = 0
                            THEN PyStr(arg.headers[i])
                            ELSE Suffixed(PyStr(arg.headers[i]), RepeatsBefore(arg.headers, i))

-----------------------------------------------------------------------------
(* Rows and the update-column helpers                                      *)

\* a row of the data frame: its column labels and, position by position, its cells
Row(labels, cells) == [labels |-> labels, cells |-> cells]

\* what row.get hands back when the label names several columns (a pandas Series)
SeriesVal == <<"Series">>

\* row.get(col, default)
RowGet(row, col, default) ==
    LET at == {i \in DOMAIN row.labels : row.labels[i] = col}
    IN  IF at = {} THEN default
        ELSE IF Cardinality(at) = 1 THEN row.cells[CHOOSE i \in at : TRUE]
        ELSE SeriesVal

\* outcome of a call: the value returned, or the exception raised
Returned(v) == [raised |-> FALSE, val |-> v]
Raised(e) == [raised |-> TRUE, val |-> e]

\* int(nums[-1]) of a column name
UpdateIndex(col) == ParseInt(LastDigitRun(PyStr(col)))

\* the test of the discovery loop: name starts with "update" and holds a digit
IsUpdateColumn(col) ==
    LET name == Strip(PyStr(col))
    IN  /\ StartsWith(Lower(name), <<"u", "p", "d", "a", "t", "e">>)
        /\ LastDigitRun(name) # <<>>

\* list.sort(key=..., reverse=latest_first) is stable in both directions: an item
\* goes after every item already placed that does not sort strictly after it
RECURSIVE InsertStable(_, _, _)
InsertStable(sorted, col, latest_first) ==
    IF sorted = <<>> THEN <<col>>
    ELSE LET goesBefore == IF latest_first
                           THEN UpdateIndex(col) > UpdateIndex(Head(sorted))
                           ELSE UpdateIndex(col) < UpdateIndex(Head(sorted))
         IN  IF goesBefore THEN <<col>> \o sorted
             ELSE <<Head(sorted)>> \o InsertStable(Tail(sorted), col, latest_first)

RECURSIVE SortFound(_, _, _)
SortFound(found, sorted, latest_first) ==
    IF found = <<>> THEN sorted
    ELSE SortFound(Tail(found), InsertStable(sorted, Head(found), latest_first), latest_first)

get_ordered_update_columns(df_columns, latest_first) ==
    SortFound(SelectSeq(df_columns, IsUpdateColumn), <<>>, latest_first)

\* pd.notna(val) and str(val).strip()
HasContent(val) == ~IsNA(val) /\ Strip(PyStr(val)) # <<>>

HasContentNoStrip(val) == ~IsNA(val) /\ PyStr(val) # <<>>

RECURSIVE compute_last_update_unstripped(_, _)
compute_last_update_unstripped(row, cols_desc) ==
    IF cols_desc = <<>> THEN Returned(<<>>)
    ELSE LET col == Head(cols_desc)
             val == RowGet(row, col, NoneVal)
         IN  IF val = SeriesVal THEN Raised("ValueError")
             ELSE IF HasContentNoStrip(val) THEN Returned(col \o <<":", " ">> \o PyStr(val))
             ELSE compute_last_update_unstripped(row, Tail(cols_desc))

RECURSIVE compute_last_update(_, _)
compute_last_update(row, cols_desc) ==
    IF cols_desc = <<>> THEN Returned(<<>>)
    ELSE LET col == Head(cols_desc)
             val == RowGet(row, col, NoneVal)
         IN  IF val = SeriesVal THEN Raised("ValueError")
             ELSE IF HasContent(val) THEN Returned(col \o <<":", " ">> \o PyStr(val))
             ELSE compute_last_update(row, Tail(cols_desc))

RECURSIVE LevelLoop(_, _, _)
LevelLoop(row, cols, max_n) ==
    IF cols = <<>> THEN Returned(max_n)
    ELSE LET col == Head(cols)
             val == RowGet(row, col, NoneVal)
             n == UpdateIndex(col)
         IN  IF val = SeriesVal THEN Raised("ValueError")
             ELSE IF HasContent(val) /\ LastDigitRun(PyStr(col)) # <<>> /\ n > max_n
                  THEN LevelLoop(row, Tail(cols), n)
                  ELSE LevelLoop(row, Tail(cols), max_n)

RECURSIVE compute_update_level_first_hit(_, _)
compute_update_level_first_hit(row, cols_all) ==
    IF cols_all = <<>> THEN Returned(0)
    ELSE LET col == Head(cols_all)
             val == RowGet(row, col, NoneVal)
         IN  IF val = SeriesVal THEN Raised("ValueError")
             ELSE IF HasContent(val) THEN Returned(UpdateIndex(col))
             ELSE compute_update_level_first_hit(row, Tail(cols_all))

compute_update_level(row, cols_all) == LevelLoop(row, cols_all, 0)

\* main, lines 302-311: the derived fields of one row
main_last_update(row, cols_desc) ==
    IF cols_desc # <<>> THEN compute_last_update(row, cols_desc)
    ELSE Returned(<<>>)

main_update_level(row, cols_desc) ==
    IF cols_desc # <<>> THEN compute_update_level(row, cols_desc)
    ELSE Returned(0)

-----------------------------------------------------------------------------
(* The helpers called on every list of column names and every record       *)

MaxCols == 3

ColumnPool ==
    { <<"U", "p", "d", "a", "t", "e", " ", "1">>,
      <<"U", "p", "d", "a", "t", "e", " ", "2">>,
      <<"U", "p", "d", "a", "t", "e", " ", "1", " ", "(", "1", ")">>,
      <<" ", "u", "p", "d", "a", "t", "e", " ", "1", "0">>,
      <<"N", "a", "m", "a", " ", "3">> }

CellPool == { NaN, <<" ">>, <<"o", "k", " ">> }

IsDistinct(s) == \A i, j \in DOMAIN s : i # j => s[i] # s[j]

\* a record maps each column name to one cell: the labels are distinct
UpdateInputs ==
    { [columns |-> cs, cells |-> vs] :
        cs \in {c \in SeqsUpTo(ColumnPool, MaxCols) : IsDistinct(c)},
        vs \in SeqsUpTo(CellPool, MaxCols) }

InitUpdate ==
    /\ arg \in {a \in UpdateInputs : Len(a.columns) = Len(a.cells)}
    /\ ret = NotCalled
    /\ PageIdle

ArgRow == Row(arg.columns, arg.cells)

Orderings(s) ==
    { [i \in DOMAIN s |-> s[f[i]]] :
        f \in {g \in [DOMAIN s -> DOMAIN s] : \A i, j \in DOMAIN s : i # j => g[i] # g[j]} }

CallGetOrdered ==
    /\ ret = NotCalled
    /\ "columns" \in DOMAIN arg
    /\ \E latest_first \in BOOLEAN :
           ret' = [fn |-> "get_ordered_update_columns",
                   latest_first |-> latest_first,
                   val |-> get_ordered_update_columns(arg.columns, latest_first)]
    /\ UNCHANGED <<arg, page>>

\* main, lines 299-300
CallMainOrdering ==
    /\ ret = NotCalled
    /\ "columns" \in DOMAIN arg
    /\ LET cols_desc == get_ordered_update_columns(arg.columns, TRUE)
       IN  ret' = [fn |-> "main_ordering",
                   desc |-> cols_desc,
                   asc |-> Reverse(cols_desc)]
    /\ UNCHANGED <<arg, page>>

CallLastUpdate ==
    /\ ret = NotCalled
    /\ "columns" \in DOMAIN arg
    /\ ret' = [fn |-> "compute_last_update",
               out |-> main_last_update(ArgRow, get_ordered_update_columns(arg.columns, TRUE))]
    /\ UNCHANGED <<arg, page>>

\* the level of the row, the discovered columns handed over in any order
CallUpdateLevel ==
    /\ ret = NotCalled
    /\ "columns" \in DOMAIN arg
    /\ LET cols_desc == get_ordered_update_columns(arg.columns, TRUE)
       IN  \E order \in Orderings(cols_desc) :
               ret' = [fn |-> "compute_update_level",
                       reordered |-> order # cols_desc,
                       out |-> main_update_level(ArgRow, order)]
    /\ UNCHANGED <<arg, page>>

NextUpdate == CallGetOrdered \/ CallMainOrdering \/ CallLastUpdate \/ CallUpdateLevel

SpecUpdate == InitUpdate /\ [][NextUpdate]_vars

\* a cell with content: present, and not made of whitespace only
NonBlank(v) == v # NaN /\ v # NoneVal /\ \E i \in DOMAIN v : ~IsSpace(v[i])

ArgCell(col) == arg.cells[CHOOSE i \in DOMAIN arg.columns : arg.columns[i] = col]

\* the update columns of the record that have content
ArgFilledUpdates == {c \in Range(arg.columns) : IsUpdateColumn(c) /\ NonBlank(ArgCell(c))}

SetMax(S) == CHOOSE m \in S : \A x \in S : x <= m

\* C5: the newest-first and oldest-first outputs of update-column discovery are
\* exact reverses of each other and hold the same columns, both for
\* get_ordered_update_columns called with each flag and for the pair main keeps.
C5_OrderingsAreReverses ==
    /\ ret.fn = "get_ordered_update_columns" =>
           LET other == get_ordered_update_columns(arg.columns, ~ret.latest_first)
           IN  ret.val = Reverse(other) /\ Range(ret.val) = Range(other)
    /\ ret.fn = "main_ordering" =>
           ret.asc = Reverse(ret.desc) /\ Range(ret.asc) = Range(ret.desc)

-----------------------------------------------------------------------------
(* load_raw_data                                                           *)

COL_NO == <<"N", "o">>
COL_PROVINSI == <<"P", "r", "o", "v", "i", "n", "s", "i">>
COL_KABUPATEN == <<"K", "a", "b", "u", "p", "a", "t", "e", "n">>
COL_KORLAP_NAME == <<"N", "a", "m", "a", " ", "R", "e", "l", "a", "w", "a", "n", " ", "K", "o", "o", "r", "d", "i", "n", "a", "t", "o", "r", " ", "L", "a", "p", "a", "n", "g", "a", "n">>
COL_LAST_UPDATE == <<"L", "a", "s", "t", " ", "U", "p", "d", "a", "t", "e", " ", "(", "f", "u", "l", "l", ")">>

IsLetter(c) == c \in UpperSet \/ c \in LowerSet

UpperChar(c) == IF c \in LowerSet THEN UpperOf[c] ELSE c

\* re.sub(r"\s+", " ", s)
RECURSIVE CollapseSpaces(_)
CollapseSpaces(s) ==
    IF s = <<>> THEN <<>>
    ELSE IF IsSpace(Head(s)) THEN <<" ">> \o CollapseSpaces(LStrip(s))
    ELSE <<Head(s)>> \o CollapseSpaces(Tail(s))

\* s.title(): a letter is upper-cased after a non-letter, lower-cased after a letter
Title(s) ==
    [i \in DOMAIN s |->
        IF i = 1 \/ ~IsLetter(s[i - 1]) THEN UpperChar(s[i]) ELSE LowerChar(s[i])]

clean_region_name(val) ==
    IF IsNA(val) THEN <<>>
    ELSE LET stripped == Strip(PyStr(val))
             s == CollapseSpaces(stripped)
             low == Lower(s)
         IN  IF stripped = <<>> THEN <<>>
             ELSE IF low = <<"d", "k", "i", " ", "j", "a", "k", "a", "r", "t", "a">> THEN <<"D", "K", "I", " ", "J", "a", "k", "a", "r", "t", "a">>
             ELSE IF low = <<"d", "i", " ", "y", "o", "g", "y", "a", "k", "a", "r", "t", "a">> THEN <<"D", "I", " ", "Y", "o", "g", "y", "a", "k", "a", "r", "t", "a">>
             ELSE Title(s)

SetMin(S) == CHOOSE m \in S : \A x \in S : m <= x

RECURSIVE Ascending(_)
Ascending(S) ==
    IF S = {} THEN <<>>
    ELSE <<SetMin(S)>> \o Ascending(S \ {SetMin(S)})

\* rows whose first cell, as text and trimmed, is "No" (positions counted from 1)
header_row_candidates(table) ==
    {i \in DOMAIN table : Strip(PyStr(table[i][1])) = COL_NO}

header_row_last(table) == SetMax(header_row_candidates(table))

\* header_row_candidates[0]
header_row(table) == SetMin(header_row_candidates(table))

\* data.index of a kept row: its position in the sheet, counted from 0
row_index_renumbered(table, kept, i) == Cardinality({k \in kept : k < i})

row_index_of(table, kept, i) == i - 1

\* lines 68-96: the frame read under the header at position h
frame_under(table, h) ==
    LET cols == cleaned_headers(table[h])
        row(i) == Row(cols, table[i])
        allNaN(i) == \A j \in DOMAIN table[i] : table[i][j] = NaN
        example(i) == /\ COL_NO \in Range(cols)
                      /\ Strip(PyStr(RowGet(row(i), COL_NO, NoneVal))) = <<"0">>
        kept == {i \in (h + 1)..Len(table) : ~allNaN(i) /\ ~example(i)}
        cleaned(i) == [j \in DOMAIN table[i] |->
                          IF cols[j] \in {COL_PROVINSI, COL_KABUPATEN}
                          THEN clean_region_name(table[i][j])
                          ELSE table[i][j]]
        order == Ascending(kept)
    IN  [stopped |-> FALSE,
         columns |-> cols,
         data |-> [n \in DOMAIN order |->
                      [row_index |-> row_index_of(table, kept, order[n]),
                       cells |-> cleaned(order[n])]]]

load_raw_data_defaulting(table) ==
    IF header_row_candidates(table) = {} THEN frame_under(table, 1)
    ELSE frame_under(table, header_row(table))

load_raw_data(table) ==
    IF header_row_candidates(table) = {}
    THEN [stopped |-> TRUE, columns |-> <<>>, data |-> <<>>]
    ELSE frame_under(table, header_row(table))

-----------------------------------------------------------------------------
(* The sheets of the page run                                              *)

MaxRows == 3

HeaderPlain == << COL_NO, COL_PROVINSI, <<"W", "A">>, COL_KORLAP_NAME, <<"U", "p", "d", "a", "t", "e", " ", "1">>, <<"U", "p", "d", "a", "t", "e", " ", "2">> >>

HeaderSpaced == << <<" ", "N", "o", " ">>, COL_PROVINSI, <<"W", "A">>, COL_KORLAP_NAME, <<"U", "p", "d", "a", "t", "e", " ", "2">>, <<"U", "p", "d", "a", "t", "e", " ", "1">> >>

\* two cells "Update 1" and a cell "Update 1 (1)": the pass leaves two columns of one name
HeaderRepeated == << COL_NO, COL_PROVINSI, COL_KORLAP_NAME, <<"U", "p", "d", "a", "t", "e", " ", "1">>, <<"U", "p", "d", "a", "t", "e", " ", "1">>, <<"U", "p", "d", "a", "t", "e", " ", "1", " ", "(", "1", ")">> >>

BlankRow == << NaN, NaN, NaN, NaN, NaN, NaN >>

DataRowA == << <<"9">>, <<"j", "a", "w", "a", " ", " ", "b", "a", "r", "a", "t">>, <<"0", "8", "1", "2", "-", "3">>, <<"A", "n", "i">>, <<"o", "k">>, NaN >>

DataRowB == << <<"1", "0">>, <<"D", "K", "I", " ", "J", "A", "K", "A", "R", "T", "A">>, NaN, NaN, <<"-">>, <<" ">> >>

\* the example-row convention: its "No" cell trims to "0"
DataRowC == << <<" ", "0">>, <<"A", "c", "e", "h">>, <<"-">>, <<"B", "u", "d", "i", " ">>, <<"o", "k">>, <<"b", "a", "r", "u">> >>

RowPool ==
    { HeaderPlain, HeaderSpaced, HeaderRepeated, BlankRow,
      DataRowA, DataRowB, DataRowC }

Sheets == SeqsUpTo(RowPool, MaxRows) \ {<<>>}

HarnessIdle == arg = [none |-> TRUE] /\ ret = NotCalled

Init ==
    /\ raw \in Sheets
    /\ pc = "start"
    /\ shown = "nothing"
    /\ columns = <<>>
    /\ df = <<>>
    /\ update_cols_desc = <<>>
    /\ update_cols_asc = <<>>
    /\ wa_korlap_col = NoneVal
    /\ filtered = <<>>
    /\ cards = <<>>
    /\ selected_indices = <<>>
    /\ message = NoMessage
    /\ detail_row_param = NoneVal
    /\ detail_view = NoDetail
    /\ sort_option = NotChosen
    /\ HarnessIdle

\* main, lines 291-296: load; st.error + st.stop() without a header row,
\* st.warning + st.stop() when the frame is empty
LoadData ==
    /\ pc = "start"
    /\ LET loaded == load_raw_data(raw)
       IN  IF loaded.stopped
           THEN /\ pc' = "stopped"
                /\ shown' = "error"
                /\ UNCHANGED <<columns, df>>
           ELSE /\ columns' = loaded.columns
                /\ df' = loaded.data
                /\ IF loaded.data = <<>>
                   THEN pc' = "stopped" /\ shown' = "warning"
                   ELSE pc' = "loaded" /\ UNCHANGED shown
    /\ UNCHANGED <<raw, update_cols_desc, update_cols_asc, wa_korlap_col, filtered,
                   cards, selected_indices, message, detail_row_param, detail_view,
                   sort_option, harness>>

-----------------------------------------------------------------------------
(* main: derived fields, lines 298-327                                     *)

clean_optional(val) ==
    IF val = NoneVal THEN <<>>
    ELSE LET s == Strip(PyStr(val))
         IN  IF s = <<>> THEN <<>>
             ELSE IF Lower(s) \in {<<"n", "a", "n">>, <<"n", "o", "n", "e">>, <<"-">>} THEN <<>>
             ELSE s

\* cols[idx - 1] for the column before the field coordinator's name, else None
korlap_phone_column(cols) ==
    IF COL_KORLAP_NAME \in Range(cols)
    THEN LET idx == SetMin({i \in DOMAIN cols : cols[i] = COL_KORLAP_NAME})
         IN  IF idx - 1 >= 1 THEN cols[idx - 1] ELSE NoneVal
    ELSE NoneVal

RecordRow(rec) == Row(columns, rec.cells)

\* an uncaught exception in a df.apply ends the run
Derive ==
    /\ pc = "loaded"
    /\ LET desc == get_ordered_update_columns(columns, TRUE)
           last(i) == main_last_update(RecordRow(df[i]), desc)
           level(i) == main_update_level(RecordRow(df[i]), desc)
       IN  IF \E i \in DOMAIN df : last(i).raised \/ level(i).raised
           THEN /\ pc' = "crashed"
                /\ UNCHANGED <<df, update_cols_desc, update_cols_asc, wa_korlap_col>>
           ELSE /\ pc' = "derived"
                /\ update_cols_desc' = desc
                /\ update_cols_asc' = Reverse(desc)
                /\ df' = [i \in DOMAIN df |->
                             [row_index |-> df[i].row_index,
                              cells |-> df[i].cells,
                              last_update |-> last(i).val,
                              update_level |-> level(i).val]]
                /\ wa_korlap_col' = korlap_phone_column(columns)
    /\ UNCHANGED <<raw, shown, columns, filtered, cards, selected_indices, message,
                   detail_row_param, detail_view, sort_option, harness>>

-----------------------------------------------------------------------------
(* main: filters, lines 427-482                                            *)

\* pattern in val
Contains(val, pattern) ==
    \E i \in 0..(Len(val) - Len(pattern)) : SubSeq(val, i + 1, i + Len(pattern)) = pattern

\* row.get(c, "") on a record of the frame, derived columns included
Field(rec, c) ==
    IF c = COL_LAST_UPDATE THEN rec.last_update
    ELSE RowGet(RecordRow(rec), c, <<>>)

HasField(c) == c = COL_LAST_UPDATE \/ c \in Range(columns)

provinsi_list ==
    {p \in {Field(df[i], COL_PROVINSI) : i \in DOMAIN df} :
        p # <<>> /\ Lower(p) # <<"n", "a", "n">>}

uniq_names ==
    IF COL_KORLAP_NAME \in Range(columns)
    THEN {n \in {Strip(Field(df[i], COL_KORLAP_NAME)) :
                     i \in {k \in DOMAIN df : ~IsNA(Field(df[k], COL_KORLAP_NAME))}} :
             n # <<>> /\ Lower(n) # <<"n", "a", "n">>}
    ELSE {}

cols_to_search ==
    { COL_KABUPATEN,
      <<"P", "o", "s", "k", "o", " ", "&", " ", "P", "e", "n", "j", "e", "l", "a", "s", "a", "n", " ", "J", "u", "m", "l", "a", "h", " ", "O", "r", "a", "n", "g", ",", " ", "B", "e", "r", "d", "a", "s", "a", "r", "k", "a", "n", " ", "J", "e", "n", "i", "s", " ", "K", "e", "l", "a", "m", "i", "n", " ", "d", "a", "n", " ", "U", "s", "i", "a">>,
      <<"L", "i", "s", "t", " ", "K", "e", "b", "u", "t", "u", "h", "a", "n", " ", "M", "e", "n", "d", "e", "s", "a", "k">>,
      COL_LAST_UPDATE }

matches(rec, search_text) ==
    \E c \in cols_to_search :
        HasField(c) /\ Contains(Lower(PyStr(Field(rec, c))), Lower(search_text))

SearchTexts == { <<>>, <<"O", "K">>, <<"u", "p", "d", "a", "t", "e", " ", "2">> }

Passes(rec, prov_sel, name_sel, search_text) ==
    /\ prov_sel # {} => Field(rec, COL_PROVINSI) \in prov_sel
    /\ (name_sel # {} /\ COL_KORLAP_NAME \in Range(columns)) =>
           Field(rec, COL_KORLAP_NAME) \in name_sel
    /\ search_text # <<>> => matches(rec, search_text)

ApplyFilters ==
    /\ pc = "detailed"
    /\ \E prov_sel \in SUBSET provinsi_list, name_sel \in SUBSET uniq_names,
          search_text \in SearchTexts :
           filtered' = SelectSeq(df, LAMBDA rec : Passes(rec, prov_sel, name_sel, search_text))
    /\ pc' = "filtered"
    /\ UNCHANGED <<raw, shown, columns, df, update_cols_desc, update_cols_asc,
                   wa_korlap_col, cards, selected_indices, message, detail_row_param,
                   detail_view, sort_option, harness>>

-----------------------------------------------------------------------------
(* main: sort control, lines 484-508                                       *)

\* characters in code-point order
CharOrder ==
    <<" ", "&", "(", ")", ",", "-", "/">> \o DigitChars \o <<":">> \o UpperChars \o LowerChars

CharCode(c) == CHOOSE i \in DOMAIN CharOrder : CharOrder[i] = c

\* a < b for Python str
TextLess(a, b) ==
    \E k \in 1..Len(b) :
        /\ k <= Len(a) + 1
        /\ \A j \in 1..(k - 1) : a[j] = b[j]
        /\ k = Len(a) + 1 \/ CharCode(a[k]) < CharCode(b[k])

\* sort_values("No", ascending=False): larger text first, missing cells last
NoBefore(a, b) ==
    LET x == RowGet(RecordRow(a), COL_NO, NaN)
        y == RowGet(RecordRow(b), COL_NO, NaN)
    IN  IF IsNA(x) THEN FALSE
        ELSE IF IsNA(y) THEN TRUE
        ELSE TextLess(y, x)

IndexDescending(a, b) == a.row_index > b.row_index

IndexAscending(a, b) == a.row_index < b.row_index

LevelThenIndexDescending(a, b) ==
    \/ a.update_level > b.update_level
    \/ a.update_level = b.update_level /\ a.row_index > b.row_index

SortOptions == {"Entry terbaru (default)", "Update paling tinggi", "Urutan input"}

\* must a come before b under the option chosen
SortsBefore(option, a, b) ==
    IF option = "Entry terbaru (default)"
    THEN IF COL_NO \in Range(columns) THEN NoBefore(a, b) ELSE IndexDescending(a, b)
    ELSE IF option = "Update paling tinggi" THEN LevelThenIndexDescending(a, b)
    ELSE IndexAscending(a, b)

\* the orders sort_values may leave: no record stands behind one it must precede
SortedOrders(recs, option) ==
    {p \in Orderings(recs) :
        \A i, j \in DOMAIN p : i < j => ~SortsBefore(option, p[j], p[i])}

SortRecords ==
    /\ pc = "filtered"
    /\ \E option \in SortOptions :
           /\ sort_option' = option
           /\ filtered' \in SortedOrders(filtered, option)
    /\ pc' = "sorted"
    /\ UNCHANGED <<raw, shown, columns, df, update_cols_desc, update_cols_asc,
                   wa_korlap_col, cards, selected_indices, message, detail_row_param,
                   detail_view, harness>>

-----------------------------------------------------------------------------
(* main: cards, lines 510-656                                              *)

\* a or b
Or(a, b) == IF a # <<>> THEN a ELSE b

\* no link is put on the card
NoLink == [built |-> FALSE]

\* f"https://wa.me/{number}?text={quote(text)}"; number None: "https://wa.me/?text=..."
WaLink(number, text) == [built |-> TRUE, number |-> number, text |-> text]

\* row.get(wa_korlap_col, "") if wa_korlap_col else ""
KorlapPhoneRaw(rec, wa_col) ==
    IF wa_col # NoneVal THEN Field(rec, wa_col) ELSE <<>>

card_link(rec, wa_col) ==
    LET korlap_name == clean_optional(Field(rec, COL_KORLAP_NAME))
        kab == clean_optional(Field(rec, COL_KABUPATEN))
        prov == clean_optional(Field(rec, COL_PROVINSI))
        wa_korlap_norm == normalize_phone(KorlapPhoneRaw(rec, wa_col))
    IN  IF wa_korlap_norm # NoneVal
        THEN WaLink(wa_korlap_norm,
                    [kind |-> "greeting", name |-> korlap_name,
                     place |-> IF kab # <<>> THEN kab ELSE prov])
        ELSE NoLink

\* the columns with clean_optional content, in the order of cols
RECURSIVE timeline_of(_, _)
timeline_of(rec, cols) ==
    IF cols = <<>> THEN <<>>
    ELSE LET val == clean_optional(Field(rec, Head(cols)))
         IN  (IF val # <<>> THEN <<[col |-> Head(cols), val |-> val]>> ELSE <<>>)
             \o timeline_of(rec, Tail(cols))

card_of(rec, timeline_latest_first) ==
    [row_index |-> rec.row_index,
     wa_link |-> card_link(rec, wa_korlap_col),
     latest_first |-> timeline_latest_first,
     timeline_items |->
         IF update_cols_desc # <<>>
         THEN timeline_of(rec, IF timeline_latest_first THEN update_cols_desc
                               ELSE update_cols_asc)
         ELSE <<>>]

\* the sub-sequences of s, order kept
RECURSIVE SubSequences(_)
SubSequences(s) ==
    IF s = <<>> THEN {<<>>}
    ELSE LET rest == SubSequences(Tail(s))
         IN  rest \cup {<<Head(s)>> \o r : r \in rest}

\* st.info + return when nothing is left; else one card per displayed record, the
\* ticked ones collected in display order
RenderCards ==
    /\ pc = "sorted"
    /\ IF filtered = <<>>
       THEN /\ pc' = "done"
            /\ shown' = "info"
            /\ UNCHANGED <<cards, selected_indices>>
       ELSE /\ pc' = "cards"
            /\ UNCHANGED shown
            /\ \E timeline_oldest_first \in BOOLEAN :
                   cards' = [i \in DOMAIN filtered |->
                                card_of(filtered[i], ~timeline_oldest_first)]
            /\ selected_indices' \in
                   SubSequences([i \in DOMAIN filtered |-> filtered[i].row_index])
    /\ UNCHANGED <<raw, columns, df, update_cols_desc, update_cols_asc, wa_korlap_col,
                   filtered, message, detail_row_param, detail_view, sort_option,
                   harness>>

-----------------------------------------------------------------------------
(* main: detail view by the "row" query parameter, lines 329-425           *)

\* what int() accepts after trimming and the sign: decimal digits, single
\* underscores allowed between them
IsDecimalLiteral(t) ==
    /\ t # <<>>
    /\ IsDigit(t[1])
    /\ IsDigit(t[Len(t)])
    /\ \A i \in DOMAIN t :
           IsDigit(t[i]) \/ (t[i] = "_" /\ IsDigit(t[i - 1]) /\ IsDigit(t[i + 1]))

\* int() reading the digits a text starts with
PyIntLeadingDigits(text) ==
    LET s == Strip(text)
        lead == SubSeq(s, 1, Cardinality({i \in DOMAIN s : \A j \in 1..i : IsDigit(s[j])}))
    IN  IF lead # <<>> THEN Returned(ParseInt(lead)) ELSE Raised("ValueError")

\* int(text): the number, or ValueError
PyInt(text) ==
    LET s == Strip(text)
        signed == s # <<>> /\ Head(s) \in {"+", "-"}
        body == IF signed THEN Tail(s) ELSE s
        n == ParseInt(SelectSeq(body, IsDigit))
    IN  IF IsDecimalLiteral(body)
        THEN Returned(IF signed /\ Head(s) = "-" THEN 0 - n ELSE n)
        ELSE Raised("ValueError")

\* the detail section of one record; its timeline is always newest first
detail_of(rec) ==
    LET items == timeline_of(rec, update_cols_desc)
    IN  [shown |-> TRUE,
         row_index |-> rec.row_index,
         prov |-> Or(clean_optional(Field(rec, COL_PROVINSI)), <<"-">>),
         kab |-> Or(clean_optional(Field(rec, COL_KABUPATEN)), <<"-">>),
         korlap_name |-> clean_optional(Field(rec, COL_KORLAP_NAME)),
         wa_korlap_pretty |-> clean_optional(KorlapPhoneRaw(rec, wa_korlap_col)),
         timeline_head |-> update_cols_desc # <<>>,
         timeline_items |-> items,
         wa_link |-> card_link(rec, wa_korlap_col)]

\* lines 333-340: the record df[df["__row_index"] == detail_idx].iloc[0], if any
detail_lookup(param, frame) ==
    IF param = NoneVal THEN NoDetail
    ELSE LET detail_idx == PyInt(param)
         IN  IF /\ ~detail_idx.raised
                /\ detail_idx.val \in {frame[k].row_index : k \in DOMAIN frame}
             THEN detail_of(frame[SetMin({k \in DOMAIN frame :
                                             frame[k].row_index = detail_idx.val})])
             ELSE NoDetail

\* values of the "row" query parameter; NoneVal: the parameter is absent
RowParams ==
    { NoneVal, <<>>, <<"1">>, <<" ", "2", " ">>, <<"+", "1">>, <<"-", "1">>, <<"9">>,
      <<"1", "x">> }

\* the parameter is part of the address the page was opened with
ShowDetail ==
    /\ pc = "derived"
    /\ detail_view' = detail_lookup(detail_row_param, df)
    /\ pc' = "detailed"
    /\ UNCHANGED <<raw, shown, columns, df, update_cols_desc, update_cols_asc,
                   wa_korlap_col, filtered, cards, selected_indices, message,
                   detail_row_param, sort_option, harness>>

-----------------------------------------------------------------------------
(* The combined WhatsApp message, lines 230-277 and 658-708                *)

\* the lines of one location; a line is kept as its kind and the values put in it
build_whatsapp_body_for_row(rec, cols_desc, wa_col) ==
    LET prov == clean_optional(Field(rec, COL_PROVINSI))
        kab == clean_optional(Field(rec, COL_KABUPATEN))
        posko == clean_optional(Field(rec, <<"P", "o", "s", "k", "o", " ", "&", " ", "P", "e", "n", "j", "e", "l", "a", "s", "a", "n", " ", "J", "u", "m", "l", "a", "h", " ", "O", "r", "a", "n", "g", ",", " ", "B", "e", "r", "d", "a", "s", "a", "r", "k", "a", "n", " ", "J", "e", "n", "i", "s", " ", "K", "e", "l", "a", "m", "i", "n", " ", "d", "a", "n", " ", "U", "s", "i", "a">>))
        kebutuhan == clean_optional(Field(rec, <<"L", "i", "s", "t", " ", "K", "e", "b", "u", "t", "u", "h", "a", "n", " ", "M", "e", "n", "d", "e", "s", "a", "k">>))
        dukungan == clean_optional(Field(rec, <<"D", "u", "k", "u", "n", "g", "a", "n", " ", "y", "a", "n", "g", " ", "b", "i", "s", "a", " ", "d", "i", " ", "o", "f", "f", "e", "r", " ", "k", "e", " ", "s", "e", "s", "a", "m", "a", " ", "j", "a", "r", "i", "n", "g", "a", "n">>))
        gmap == clean_optional(Field(rec, <<"L", "i", "n", "k", " ", "G", "o", "o", "g", "l", "e", " ", "M", "a", "p">>))
        foto == clean_optional(Field(rec, <<"L", "i", "n", "k", " ", "F", "o", "t", "o", " ", "/", " ", "S", "o", "s", "m", "e", "d", " ", "/", " ", "G", "o", "o", "g", "l", "e", " ", "D", "r", "i", "v", "e">>))
        korlap_name == clean_optional(Field(rec, COL_KORLAP_NAME))
        wa_pretty == clean_optional(KorlapPhoneRaw(rec, wa_col))
        items == timeline_of(rec, cols_desc)
    IN  << [kind |-> "title", prov |-> Or(prov, <<"-">>), kab |-> Or(kab, <<"-">>)],
           [kind |-> "blank"],
           [kind |-> "posko_head"],
           [kind |-> "text", text |-> Or(posko, <<"-">>)],
           [kind |-> "blank"],
           [kind |-> "pic", name |-> Or(korlap_name, <<"-">>), wa |-> wa_pretty],
           [kind |-> "blank"] >>
        \o (IF items # <<>>
            THEN <<[kind |-> "timeline_head"]>>
                 \o [i \in DOMAIN items |->
                        [kind |-> "timeline", col |-> items[i].col, val |-> items[i].val]]
            ELSE <<[kind |-> "no_update"]>>)
        \o (IF kebutuhan # <<>>
            THEN <<[kind |-> "blank"], [kind |-> "needs_head"], [kind |-> "text", text |-> kebutuhan]>>
            ELSE <<>>)
        \o (IF dukungan # <<>>
            THEN <<[kind |-> "blank"], [kind |-> "support_head"], [kind |-> "text", text |-> dukungan]>>
            ELSE <<>>)
        \o (IF gmap # <<>> THEN <<[kind |-> "blank"], [kind |-> "map", text |-> gmap]>> ELSE <<>>)
        \o (IF foto # <<>> THEN <<[kind |-> "blank"], [kind |-> "photo", text |-> foto]>> ELSE <<>>)

\* df[df["__row_index"] == i].iloc[0]
RecordAt(i) == df[SetMin({k \in DOMAIN df : df[k].row_index = i})]

\* "\n\n----------\n\n".join(bodies), each body under its "Lokasi i" line
RECURSIVE combined_body(_, _)
combined_body(indices, i) ==
    IF indices = <<>> THEN <<>>
    ELSE LET rec == RecordAt(Head(indices))
             body == <<[kind |-> "lokasi", n |-> i,
                        prov |-> Or(clean_optional(Field(rec, COL_PROVINSI)), <<"-">>),
                        kab |-> Or(clean_optional(Field(rec, COL_KABUPATEN)), <<"-">>)]>>
                     \o build_whatsapp_body_for_row(rec, update_cols_desc, wa_korlap_col)
         IN  IF Tail(indices) = <<>> THEN body
             ELSE body \o <<[kind |-> "blank"], [kind |-> "separator"], [kind |-> "blank"]>>
                       \o combined_body(Tail(indices), i + 1)

ComposeMessage ==
    /\ pc = "cards"
    /\ pc' = "done"
    /\ IF selected_indices # <<>>
       THEN LET body == combined_body(selected_indices, 1)
            IN  message' = [composed |-> TRUE,
                            body |-> body,
                            wa_link_multi |-> WaLink(NoneVal, body)]
       ELSE UNCHANGED message
    /\ UNCHANGED <<raw, shown, columns, df, update_cols_desc, update_cols_asc,
                   wa_korlap_col, filtered, cards, selected_indices, detail_row_param,
                   detail_view, sort_option, harness>>

Next ==
    \/ LoadData
    \/ Derive
    \/ ShowDetail
    \/ ApplyFilters
    \/ SortRecords
    \/ RenderCards
    \/ ComposeMessage

\* the page opened without a "row" parameter
Spec == Init /\ [][Next]_vars

\* the sheets of the runs opened with a "row" parameter: a header, then data rows
DetailSheets ==
    {<<HeaderPlain>> \o rows :
        rows \in SeqsUpTo({BlankRow, DataRowA, DataRowB}, MaxRows - 1) \ {<<>>}}

InitDetail ==
    /\ raw \in DetailSheets
    /\ detail_row_param \in RowParams
    /\ pc = "start"
    /\ shown = "nothing"
    /\ columns = <<>>
    /\ df = <<>>
    /\ update_cols_desc = <<>>
    /\ update_cols_asc = <<>>
    /\ wa_korlap_col = NoneVal
    /\ filtered = <<>>
    /\ cards = <<>>
    /\ selected_indices = <<>>
    /\ message = NoMessage
    /\ detail_view = NoDetail
    /\ sort_option = NotChosen
    /\ HarnessIdle

\* the page opened with any "row" parameter
SpecDetail == InitDetail /\ [][Next]_vars

-----------------------------------------------------------------------------
(* Properties of the page run                                              *)

Loaded ==
    pc \in {"loaded", "crashed", "derived", "detailed", "filtered", "sorted", "cards", "done"}

\* positions (from 1) of the rows of the sheet whose first cell trims to "No"
NoRows == {i \in DOMAIN raw : Strip(PyStr(raw[i][1])) = <<"N", "o">>}

\* record rec holds the cells of sheet row r, the region columns cleaned
ComesFromRow(rec, r) ==
    /\ r \in DOMAIN raw
    /\ Len(rec.cells) = Len(raw[r])
    /\ \A j \in DOMAIN rec.cells :
           rec.cells[j] = IF columns[j] \in {COL_PROVINSI, COL_KABUPATEN}
                          THEN clean_region_name(raw[r][j])
                          ELSE raw[r][j]

\* C1: when some row's first cell trims to "No", the first such row is the header:
\* the column names come from its cells, every record comes from a row strictly
\* after it, and no row before it gives a record.
C1_FirstNoRowIsHeader ==
    (Loaded /\ NoRows # {}) =>
        LET h == CHOOSE i \in NoRows : \A k \in NoRows : i <= k
        IN  /\ Len(columns) = Len(raw[h])
            /\ \A j \in DOMAIN columns : StartsWith(columns[j], PyStr(raw[h][j]))
            /\ \A k \in DOMAIN df :
                   /\ df[k].row_index + 1 > h
                   /\ ComesFromRow(df[k], df[k].row_index + 1)

C1_Witness ==
    /\ pc = "loaded"
    /\ Cardinality(NoRows) = 2
    /\ 1 \notin NoRows
    /\ df # <<>>

\* C3: a sheet with no row whose first cell trims to "No" ends the run in the
\* stopped state with the error shown; no column list, record, derived field,
\* filter result, card or message is ever produced from it.
C3_NoHeaderStops ==
    (pc # "idle" /\ NoRows = {}) =>
        /\ pc \in {"start", "stopped"}
        /\ pc = "stopped" => shown = "error"
        /\ columns = <<>>
        /\ df = <<>>
        /\ update_cols_desc = <<>>
        /\ update_cols_asc = <<>>
        /\ filtered = <<>>
        /\ cards = <<>>
        /\ selected_indices = <<>>
        /\ message = NoMessage

C3_Witness ==
    /\ pc = "stopped"
    /\ shown = "error"
    /\ Len(raw) = MaxRows
    /\ \E i \in DOMAIN raw : ~IsNA(raw[i][1])

FooterBlocks(body) == Cardinality({i \in DOMAIN body : body[i].kind = "footer"})

\* C8: a message composed for two or more selected records holds exactly one
\* footer block, as its last block.
C8_OneFooterAtEnd ==
    (message # NoMessage /\ Len(selected_indices) >= 2) =>
        /\ FooterBlocks(message.body) = 1
        /\ message.body[Len(message.body)].kind = "footer"

\* C9: every record shown gets a message link: to the field coordinator's
\* normalized phone when normalize_phone gives one, numberless otherwise.
C9_LinkAlwaysBuilt ==
    \A i \in DOMAIN cards :
        IF cards[i].wa_link.built
        THEN cards[i].wa_link.number =
                 normalize_phone(KorlapPhoneRaw(filtered[i], wa_korlap_col))
        ELSE FALSE

\* C10: a record's row index is its position in the sheet (from 0), row indices are
\* pairwise distinct, and the records displayed after filters and sort are records
\* of the frame, unaltered and not repeated, each card carrying its record's index.
C10_RowIdentityStable ==
    Loaded =>
        /\ \A k \in DOMAIN df : ComesFromRow(df[k], df[k].row_index + 1)
        /\ \A k, l \in DOMAIN df : k # l => df[k].row_index # df[l].row_index
        /\ \A i \in DOMAIN filtered : \E k \in DOMAIN df : filtered[i] = df[k]
        /\ \A i, j \in DOMAIN filtered :
               i # j => filtered[i].row_index # filtered[j].row_index
        /\ Len(cards) > 0 => Len(cards) = Len(filtered)
        /\ \A i \in DOMAIN cards : cards[i].row_index = filtered[i].row_index

C10_Witness ==
    /\ pc = "cards"
    /\ Len(df) = 2
    /\ Len(filtered) = 1
    /\ filtered[1] = df[2]
    /\ cards[1].row_index = 2

Sorted == pc \in {"sorted", "cards", "done"} /\ sort_option # NotChosen

\* C11: under "Entry terbaru (default)" the displayed records stand in row index
\* order, highest first, whatever the sheet's "No" column holds; under "Update
\* paling tinggi" in update level order, highest first, equal levels by row index,
\* highest first; under "Urutan input" in row index order, lowest first.
C11_SortPolicyOrder ==
    Sorted =>
        \A i, j \in DOMAIN filtered :
            i < j =>
                IF sort_option = "Entry terbaru (default)"
                THEN filtered[i].row_index > filtered[j].row_index
                ELSE IF sort_option = "Update paling tinggi"
                THEN \/ filtered[i].update_level > filtered[j].update_level
                     \/ /\ filtered[i].update_level = filtered[j].update_level
                        /\ filtered[i].row_index > filtered[j].row_index
                ELSE filtered[i].row_index < filtered[j].row_index

-----------------------------------------------------------------------------
(* Properties of the page run opened with a "row" parameter                *)

DetailDone == pc \in {"detailed", "filtered", "sorted", "cards", "done"}

\* the identifier is numeric: an optional sign and decimal digits, blanks around
IsRowNumber(p) ==
    /\ p # NoneVal
    /\ LET t == Strip(p)
           ds == IF t # <<>> /\ Head(t) \in {"+", "-"} THEN Tail(t) ELSE t
       IN  ds # <<>> /\ \A i \in DOMAIN ds : IsDigit(ds[i])

RowNumber(p) ==
    LET t == Strip(p)
    IN  IF Head(t) = "-" THEN 0 - ParseInt(Tail(t))
        ELSE IF Head(t) = "+" THEN ParseInt(Tail(t))
        ELSE ParseInt(t)

\* the loaded records the identifier names
NamedRecords ==
    {k \in DOMAIN df : IsRowNumber(detail_row_param) /\ df[k].row_index = RowNumber(detail_row_param)}

\* filters, sort, cards and message as the page makes them from the frame and the
\* visitor's choices alone
PageFromFrameAlone ==
    /\ pc = "stopped" => df = <<>>
    /\ \E keep \in SUBSET DOMAIN df :
           /\ Len(filtered) = Cardinality(keep)
           /\ \A k \in keep : \E i \in DOMAIN filtered : filtered[i] = df[k]
    /\ pc \in {"sorted", "cards", "done"} =>
           \A i, j \in DOMAIN filtered : i < j => ~SortsBefore(sort_option, filtered[j], filtered[i])
    /\ pc \in {"cards", "done"} /\ filtered # <<>> =>
           /\ cards = [i \in DOMAIN filtered |-> card_of(filtered[i], cards[1].latest_first)]
           /\ selected_indices \in SubSequences([i \in DOMAIN filtered |-> filtered[i].row_index])
    /\ pc = "done" /\ filtered # <<>> =>
           message = IF selected_indices = <<>> THEN NoMessage
                     ELSE [composed |-> TRUE,
                           body |-> combined_body(selected_indices, 1),
                           wa_link_multi |-> WaLink(NoneVal, combined_body(selected_indices, 1))]

\* C12: an identifier that is the row index of a loaded record brings the detail
\* view of exactly that record; a non-numeric identifier, or one naming no loaded
\* record, brings no detail view; in neither case is an error raised or the page
\* stopped, and filters, cards and message come out as without an identifier.
C12_DetailLookup ==
    /\ pc # "crashed"
    /\ shown # "error"
    /\ ~DetailDone => detail_view = NoDetail
    /\ DetailDone =>
           IF NamedRecords # {}
           THEN /\ Cardinality(NamedRecords) = 1
                /\ detail_view.shown
                /\ detail_view.row_index = RowNumber(detail_row_param)
                /\ \A k \in NamedRecords : detail_view = detail_of(df[k])
           ELSE detail_view = NoDetail
    /\ PageFromFrameAlone

C12_Witness ==
    /\ pc = "done"
    /\ detail_row_param = <<"1", "x">>
    /\ \E k \in DOMAIN df : df[k].row_index = 1
    /\ detail_view = NoDetail
    /\ Len(cards) = 2
    /\ message # NoMessage

-----------------------------------------------------------------------------
(* Properties of the timelines                                             *)

\* the columns of the timeline lines of a body, location by location
RECURSIVE TimelinesFrom(_, _)
TimelinesFrom(body, acc) ==
    IF body = <<>> THEN acc
    ELSE LET line == Head(body)
         IN  IF line.kind = "lokasi" THEN TimelinesFrom(Tail(body), Append(acc, <<>>))
             ELSE IF line.kind = "timeline"
                  THEN TimelinesFrom(Tail(body),
                                     [acc EXCEPT ![Len(acc)] = Append(acc[Len(acc)], line.col)])
                  ELSE TimelinesFrom(Tail(body), acc)

MessageTimelines == TimelinesFrom(message.body, <<>>)

CardOf(row_index) == cards[CHOOSE i \in DOMAIN cards : cards[i].row_index = row_index]

CardTimeline(card) == [i \in DOMAIN card.timeline_items |-> card.timeline_items[i].col]

\* the update columns of the list whose cell in the record has content
FilledColumns(rec, cols) == SelectSeq(cols, LAMBDA c : NonBlank(Field(rec, c)))

\* C13: in a composed message the timeline of each selected record lists exactly
\* its update columns with content, in the order of the discovered list the
\* timeline toggle selects, which is also the order of the record's card timeline.
C13_MessageTimelineOrder ==
    message # NoMessage =>
        /\ Len(MessageTimelines) = Len(selected_indices)
        /\ \A n \in DOMAIN selected_indices :
               LET rec == RecordAt(selected_indices[n])
                   card == CardOf(selected_indices[n])
                   chosen == IF card.latest_first THEN update_cols_desc ELSE update_cols_asc
               IN  /\ MessageTimelines[n] = FilledColumns(rec, chosen)
                   /\ MessageTimelines[n] = CardTimeline(card)

\* the update columns compute_last_update can name and compute_update_level counts
CountedColumns(rec) == {c \in Range(update_cols_desc) : HasContent(Field(rec, c))}

\* the record has a last-update text or a level above 0
HasUpdate(rec) == rec.last_update # <<>> \/ rec.update_level > 0

\* C14: every update column that compute_last_update can name and
\* compute_update_level counts for a record has an entry in the record's card
\* timeline and in its message timeline; a record with a last-update text or a
\* level above 0 never gets the "no written update yet" placeholder.
C14_NonBlankConsistent ==
    /\ \A i \in DOMAIN cards :
           /\ CountedColumns(filtered[i]) \subseteq Range(CardTimeline(cards[i]))
           /\ HasUpdate(filtered[i]) => cards[i].timeline_items # <<>>
    /\ message # NoMessage =>
           \A n \in DOMAIN selected_indices :
               LET rec == RecordAt(selected_indices[n])
               IN  /\ CountedColumns(rec) \subseteq Range(MessageTimelines[n])
                   /\ HasUpdate(rec) => MessageTimelines[n] # <<>>

====
